---- MODULE Spec2Model ----
(***************************************************************************)
(* The demo HTTP server of test-application.go: main registers five        *)
(* handlers on the default ServeMux; every request is served by its own    *)
(* goroutine.  A handler is a straight run of simulated waits that ends    *)
(* with one response.  A wait is either a select between a timer and the   *)
(* request context's Done channel (simulateDatabase, simulateExternalAPI)  *)
(* or a time.Sleep.                                                        *)
(*                                                                         *)
(* A goroutine is modelled by its position pc between blocking points.     *)
(* The runtime resolves a parked select by the first event that happens:   *)
(* the timer case is taken only while the context is not yet done, the     *)
(* Done case once it is.  A cancellation that happens before the select is *)
(* entered is seen by the select at once, exactly as one that happens      *)
(* while it is parked.  The instant at which a timer expires is left to    *)
(* the scheduler; "now" is the reading of the process's monotonic clock,   *)
(* in units the model leaves open.                                         *)
(***************************************************************************)
EXTENDS Integers, Sequences, FiniteSets, TLC

\* ------------------------------------------------------------------ constants
DbLatencyN == 90         \* rand.Intn(90)+10
DbLatencyBase == 10
ExtLatencyN == 200       \* rand.Intn(200)+50
ExtLatencyBase == 50
BadDelayN == 20          \* rand.Intn(20)+5
BadDelayBase == 5
AdminDelayN == 15        \* rand.Intn(15)+5
AdminDelayBase == 5

\* ------------------------------------------------------------------ bounds
NumReq == 2        \* requests the server receives in one run
MaxTime == 1       \* clock readings 0..MaxTime
NumLive == 1       \* requests the server receives in one run of FairSpec

Reqs == 1..NumReq
LiveReqs == 1..NumLive

\* ------------------------------------------------------------------ inputs
\* A URL path "/a/b" is the sequence of its segments after the leading
\* slash: "/" is <<"">>, "/good/" is <<"good", "">>, "//good" is <<"", "good">>.
Paths ==
    { <<"">>, <<"good">>, <<"bad">>, <<"admin">>, <<"health">>,
      <<"other">>, <<"good", "">>, <<"", "good">> }

\* The Authorization header: absent, or one value.
Auths == { <<>>, <<"Bearer admin-token">> }
NoAuth == <<>>

\* r.Header.Get: the first value, "" when the header is absent.
HeaderGet(h) == IF h = <<>> THEN "" ELSE h[1]

\* every value rand.Intn(n) can return: [0, n)
RandIntn(n) == 0..(n - 1)

\* rand.Intn(n) as the handlers of Spec draw it: the two ends of [0, n)
Intn(n) == { k \in RandIntn(n) : k = 0 \/ k = n - 1 }

\* a latency computed without its base
LatencyMsNoBase(k, base) == k

\* time.Duration(k+base) * time.Millisecond for the drawn k, in milliseconds
LatencyMs(k, base) == k + base

\* time.Duration(rand.Intn(n)+base) * time.Millisecond, in milliseconds.
Latency(n, base) == { LatencyMs(k, base) : k \in Intn(n) }

\* ------------------------------------------------------------------ data
Users ==
    << [id |-> 1, name |-> "Alice Johnson"],
       [id |-> 2, name |-> "Bob Smith"],
       [id |-> 3, name |-> "Charlie Brown"] >>

\* Response{Status, Message, Data}
Response(status, message, data) ==
    [status |-> status, message |-> message, data |-> data]

\* time.Now().Format(time.RFC3339) and time.Now().Unix(): wall-clock stamps.
RFC3339 == "RFC3339"
UnixTime == "Unix"

\* interface{} holding nil, or a value: a sequence of at most one element.
Nil == <<>>
Some(v) == <<v>>

\* the map simulateExternalAPI returns when its timer fires
ExternalPayload(endpoint) ==
    [external_data |-> <<"Data from ", endpoint>>, timestamp |-> UnixTime]

GoodEndpoint == "https://api.example.com/status"

BadOperations ==
    << "validate_user_permissions", "check_rate_limits", "process_payment" >>
AdminOperations ==
    << "validate_token_format", "check_token_expiry", "verify_admin_permissions" >>

\* time.Since(startTime).String(): the elapsed time as a duration text
DurationString(d) == <<d, "ms">>

JSON == "application/json"
TextPlain == "text/plain; charset=utf-8"
TextHTML == "text/html; charset=utf-8"

\* ------------------------------------------------------------------ state
VARIABLES
    mainPc,      \* "init" before main has run, "serving" in ListenAndServe
    startTime,   \* the package variable startTime
    now,         \* the monotonic clock
    req,         \* req[r]: the request r and the goroutine that serves it
    lat          \* SpecDraw only: the latency the last draw produced

vars == << mainPc, startTime, now, req, lat >>

\* no latency drawn yet
NoDraw == [op |-> "", ms |-> 0]

\* pc: "idle" not yet received, "db" in simulateDatabase's select,
\*     "op1".."op3" in the time.Sleep of the loop's iteration, "ext" in
\*     simulateExternalAPI's select, "done" once the handler has returned.
\* cancelAt: "" while r.Context() is live, else the kind of wait ("db",
\*     "sleep", "ext") the goroutine was in when the context was cancelled.
\* trace: the waits that have returned, each with the event that ended it.
\* ctype, codes, body: the Content-Type header, the status codes written
\*     and the body written to the http.ResponseWriter.
IdleReq ==
    [ path |-> <<>>, auth |-> NoAuth, pc |-> "idle", cancelAt |-> "",
      trace |-> <<>>, ctype |-> "", codes |-> <<>>, body |-> <<>> ]

Init ==
    /\ mainPc = "init"
    /\ startTime = 0
    /\ now = 0
    /\ req = [r \in Reqs |-> IdleReq]
    /\ lat = NoDraw

\* ------------------------------------------------------------------ net/http
\* w.Header().Set("Content-Type", v)
SetContentType(q, v) == [q EXCEPT !.ctype = v]

\* w.WriteHeader(code)
WriteHeader(q, code) == [q EXCEPT !.codes = Append(@, code)]

\* w.Write: the first write sends status 200 when no status was written.
Write(q, b) ==
    LET h == IF q.codes = <<>> THEN WriteHeader(q, 200) ELSE q
    IN  [h EXCEPT !.body = b]

\* json.NewEncoder(w).Encode(response)
Encode(q, response) == Write(q, <<"json", response>>)

\* http.Error(w, msg, code): a plain-text reply
HttpError(q, msg, code) ==
    Write(WriteHeader(SetContentType(q, TextPlain), code), <<"text", msg>>)

\* http.NotFound(w, r)
NotFound(q) == HttpError(q, "404 page not found", 404)

\* the handler returns
Return(q) == [q EXCEPT !.pc = "done"]

\* ------------------------------------------------------------------ waits
\* entering a wait with the drawn latency l: the timer is armed with l and
\* the goroutine parks until the scheduler wakes it
StartWait(q, pc, l) == [q EXCEPT !.pc = pc]

\* a wait returns; by is the event that ended it
EndWait(q, op, by) == [q EXCEPT !.trace = Append(@, [op |-> op, by |-> by])]

WaitKind(pc) == IF pc \in {"op1", "op2", "op3"} THEN "sleep" ELSE pc

\* ctx.Done() is closed
CtxDone(q) == q.cancelAt # ""

\* a select that never takes the Done case
SelectTimerOnly(q) == "timer"

\* The case a select { <-time.After(latency); <-ctx.Done() } returns by:
\* Done once the context is cancelled, the timer otherwise.
Select(q) == IF CtxDone(q) THEN "ctx" ELSE "timer"

\* a delay written as a select on the context, like the other waits
SleepWakeOnCtx(q) == IF q.cancelAt # "" THEN "ctx" ELSE "timer"

\* time.Sleep returns when its timer fires, whatever the context
SleepWake(q) == "timer"

\* an error returned by both cases of the select
DatabaseErrAlways(by) == Some("context canceled")

\* simulateDatabase's return value: nil, or ctx.Err()
DatabaseErr(by) == IF by = "ctx" THEN Some("context canceled") ELSE Nil

\* the payload returned by both cases of the select
ExternalDataAlways(by, endpoint) == Some(ExternalPayload(endpoint))

\* simulateExternalAPI's first return value
ExternalData(by, endpoint) ==
    IF by = "ctx" THEN Nil ELSE Some(ExternalPayload(endpoint))

\* ------------------------------------------------------------------ ServeMux
RECURSIVE CleanSegs(_, _)
\* path.Clean on the segments: drops "" and ".", ".." removes the last kept
CleanSegs(segs, acc) ==
    IF segs = <<>> THEN acc
    ELSE LET s == Head(segs)
             acc2 == IF s = "" \/ s = "." THEN acc
                     ELSE IF s = ".."
                          THEN (IF acc = <<>> THEN acc
                                ELSE SubSeq(acc, 1, Len(acc) - 1))
                          ELSE Append(acc, s)
         IN  CleanSegs(Tail(segs), acc2)

\* net/http cleanPath: path.Clean, with the trailing slash put back
cleanPath(p) ==
    LET np == CleanSegs(p, <<>>)
    IN  IF np = <<>> THEN <<"">>
        ELSE IF p[Len(p)] = "" THEN Append(np, "") ELSE np

\* The handler the default ServeMux picks: a request whose path is not
\* clean is redirected; "/good", "/bad", "/admin", "/health" match exactly
\* and the pattern "/" matches every other path.
Mux(p) ==
    IF cleanPath(p) # p THEN "redirect"
    ELSE IF p = <<"good">> THEN "goodHandler"
    ELSE IF p = <<"bad">> THEN "badHandler"
    ELSE IF p = <<"admin">> THEN "adminHandler"
    ELSE IF p = <<"health">> THEN "healthHandler"
    ELSE "root"

\* ------------------------------------------------------------------ main
\* main: startTime = time.Now(), the routes, ListenAndServe
Main ==
    /\ mainPc = "init"
    /\ mainPc' = "serving"
    /\ startTime' = now
    /\ UNCHANGED << now, req, lat >>

\* time passes
Tick ==
    /\ now < MaxTime
    /\ now' = now + 1
    /\ UNCHANGED << mainPc, startTime, req, lat >>

Set(r, q) == req' = [req EXCEPT ![r] = q]

\* The requests the server may accept as its r-th and hand to handler h
\* (requests are numbered in arrival order; only adminHandler reads the
\* Authorization header, so the other requests are drawn without one).
Accept(r, h) ==
    IF mainPc = "serving" /\ req[r].pc = "idle" /\ (r > 1 => req[r - 1].pc # "idle")
    THEN { [IdleReq EXCEPT !.path = p, !.auth = a] :
             <<p, a>> \in { x \in Paths \X Auths :
                              /\ Mux(x[1]) = h
                              /\ (h # "adminHandler" => x[2] = NoAuth) } }
    ELSE {}

\* a server whose handlers hold one lock while they run: a goroutine moves
\* only when no request accepted before it is still being served
AtOneAtATime(r, h, pc) ==
    /\ req[r].pc = pc /\ Mux(req[r].path) = h
    /\ \A r2 \in 1..(r - 1) : req[r2].pc \in {"idle", "done"}

\* the goroutine serving r is inside handler h at position pc
At(r, h, pc) == req[r].pc = pc /\ Mux(req[r].path) = h

\* the client goes away while r is being served: r.Context() is cancelled
Cancel(r) ==
    /\ req[r].pc \notin {"idle", "done"}
    /\ ~CtxDone(req[r])
    /\ Set(r, [req[r] EXCEPT !.cancelAt = WaitKind(req[r].pc)])
    /\ UNCHANGED << mainPc, startTime, now, lat >>

\* the mux answers a request whose path is not clean (RedirectHandler)
Redirect(r) ==
    /\ \E q \in Accept(r, "redirect") :
          Set(r, Return(Write(WriteHeader(SetContentType(q, TextHTML), 301),
                              <<"text", "Moved Permanently">>)))
    /\ UNCHANGED << mainPc, startTime, now, lat >>

\* ------------------------------------------------------------------ handlers
\* simulateDatabase up to its select, entered from q
simulateDatabase(r, q) ==
    \E l \in Latency(DbLatencyN, DbLatencyBase) : Set(r, StartWait(q, "db", l))

\* simulateExternalAPI up to its select, entered from q
simulateExternalAPI(r, q) ==
    \E l \in Latency(ExtLatencyN, ExtLatencyBase) : Set(r, StartWait(q, "ext", l))

\* time.Sleep(time.Duration(rand.Intn(n)+base) * time.Millisecond) of iteration i
Sleep(r, q, i, n, base) ==
    \E l \in Latency(n, base) : Set(r, StartWait(q, <<"op1", "op2", "op3">>[i], l))

OpIndex(pc) == IF pc = "op1" THEN 1 ELSE IF pc = "op2" THEN 2 ELSE 3

GoodResponse(externalData) ==
    Response("success", "Request processed successfully",
             [users |-> Users, external_data |-> externalData,
              processed_at |-> RFC3339])

\* goodHandler, lines 61-65: up to the database wait
GoodStart(r) ==
    /\ \E q \in Accept(r, "goodHandler") : simulateDatabase(r, q)
    /\ UNCHANGED << mainPc, startTime, now, lat >>

\* a goodHandler that tries the database once more after a failed wait
GoodDbRetriesOnce(r) ==
    /\ At(r, "goodHandler", "db")
    /\ LET by == Select(req[r])
           q == EndWait(req[r], "db", by)
       IN  IF DatabaseErr(by) # Nil
           THEN (IF req[r].trace = <<>>
                 THEN simulateDatabase(r, q)
                 ELSE Set(r, Return(HttpError(q, "Database unavailable", 503))))
           ELSE simulateExternalAPI(r, q)
    /\ UNCHANGED << mainPc, startTime, now, lat >>

\* a goodHandler without the return after http.Error
GoodDbNoReturn(r) ==
    /\ At(r, "goodHandler", "db")
    /\ LET by == Select(req[r])
           q == EndWait(req[r], "db", by)
       IN  IF DatabaseErr(by) # Nil
           THEN simulateExternalAPI(r, HttpError(q, "Database unavailable", 503))
           ELSE simulateExternalAPI(r, q)
    /\ UNCHANGED << mainPc, startTime, now, lat >>

\* goodHandler, lines 65-72: the database wait returns
GoodDb(r) ==
    /\ At(r, "goodHandler", "db")
    /\ LET by == Select(req[r])
           q == EndWait(req[r], "db", by)
       IN  IF DatabaseErr(by) # Nil
           THEN Set(r, Return(HttpError(q, "Database unavailable", 503)))
           ELSE simulateExternalAPI(r, q)
    /\ UNCHANGED << mainPc, startTime, now, lat >>

\* goodHandler, lines 72-103: the external call returns, the reply is written
GoodExt(r) ==
    /\ At(r, "goodHandler", "ext")
    /\ LET by == Select(req[r])
           q == EndWait(req[r], "ext", by)
           response == GoodResponse(ExternalData(by, GoodEndpoint))
       IN  Set(r, Return(Encode(WriteHeader(SetContentType(q, JSON), 200), response)))
    /\ UNCHANGED << mainPc, startTime, now, lat >>

goodHandler(r) == GoodStart(r) \/ GoodDb(r) \/ GoodExt(r)

BadResponse ==
    Response("error", "Internal server error occurred",
             [error_code |-> "INTERNAL_ERROR", timestamp |-> RFC3339])

\* badHandler, lines 107-111
BadStart(r) ==
    /\ \E q \in Accept(r, "badHandler") : simulateDatabase(r, q)
    /\ UNCHANGED << mainPc, startTime, now, lat >>

\* a badHandler that answers at once when its database wait fails
BadDbReturnsOnError(r) ==
    /\ At(r, "badHandler", "db")
    /\ LET by == Select(req[r])
           q == EndWait(req[r], "db", by)
       IN  IF DatabaseErr(by) # Nil
           THEN Set(r, Return(Encode(WriteHeader(SetContentType(q, JSON), 500),
                                     BadResponse)))
           ELSE Sleep(r, q, 1, BadDelayN, BadDelayBase)
    /\ UNCHANGED << mainPc, startTime, now, lat >>

\* badHandler, lines 111-125: the database wait returns, its error is only logged
BadDb(r) ==
    /\ At(r, "badHandler", "db")
    /\ Sleep(r, EndWait(req[r], "db", Select(req[r])), 1, BadDelayN, BadDelayBase)
    /\ UNCHANGED << mainPc, startTime, now, lat >>

\* badHandler, lines 122-129: a delay of the loop ends
BadSleep(r) ==
    /\ \E pc \in {"op1", "op2", "op3"} : At(r, "badHandler", pc)
    /\ LET i == OpIndex(req[r].pc)
           q == EndWait(req[r], BadOperations[i], SleepWake(req[r]))
       IN  IF i < Len(BadOperations)
           THEN Sleep(r, q, i + 1, BadDelayN, BadDelayBase)
           ELSE simulateExternalAPI(r, q)
    /\ UNCHANGED << mainPc, startTime, now, lat >>

\* a status that follows the outcome of the simulated calls
BadStatusByOutcome(q) ==
    IF \E i \in DOMAIN q.trace : q.trace[i].by = "ctx" THEN 503 ELSE 500

\* the status badHandler answers a request with
BadStatus(q) == 500

\* badHandler, lines 129-151: the external call returns, the reply is written
BadExt(r) ==
    /\ At(r, "badHandler", "ext")
    /\ LET q == EndWait(req[r], "ext", Select(req[r]))
       IN  Set(r, Return(Encode(WriteHeader(SetContentType(q, JSON), BadStatus(q)),
                                BadResponse)))
    /\ UNCHANGED << mainPc, startTime, now, lat >>

badHandler(r) == BadStart(r) \/ BadDb(r) \/ BadSleep(r) \/ BadExt(r)

AdminResponse ==
    Response("error", "Unauthorized access - admin privileges required",
             [error_code |-> "UNAUTHORIZED", required_role |-> "admin",
              timestamp |-> RFC3339])

\* adminHandler, lines 155-163: the token is read and logged
AdminStart(r) ==
    /\ \E q \in Accept(r, "adminHandler") :
          LET authToken == HeaderGet(q.auth)
          IN  simulateDatabase(r, q)
    /\ UNCHANGED << mainPc, startTime, now, lat >>

\* adminHandler, lines 163-176
AdminDb(r) ==
    /\ At(r, "adminHandler", "db")
    /\ Sleep(r, EndWait(req[r], "db", Select(req[r])), 1, AdminDelayN, AdminDelayBase)
    /\ UNCHANGED << mainPc, startTime, now, lat >>

\* a handler that lets a request with the admin token in
AdminStatusByToken(q) == IF HeaderGet(q.auth) = "Bearer admin-token" THEN 200 ELSE 401

\* the status adminHandler answers a request with
AdminStatus(q) == 401

\* adminHandler, lines 174-200: a delay ends; after the last the reply is written
AdminSleep(r) ==
    /\ \E pc \in {"op1", "op2", "op3"} : At(r, "adminHandler", pc)
    /\ LET i == OpIndex(req[r].pc)
           q == EndWait(req[r], AdminOperations[i], SleepWake(req[r]))
       IN  IF i < Len(AdminOperations)
           THEN Sleep(r, q, i + 1, AdminDelayN, AdminDelayBase)
           ELSE Set(r, Return(Encode(WriteHeader(SetContentType(q, JSON),
                                                 AdminStatus(q)),
                                     AdminResponse)))
    /\ UNCHANGED << mainPc, startTime, now, lat >>

adminHandler(r) == AdminStart(r) \/ AdminDb(r) \/ AdminSleep(r)

\* an envelope whose status is outside the documented three
HealthResponseUp(uptime) ==
    Response("up", "Service is running",
             [uptime |-> DurationString(uptime), timestamp |-> RFC3339])

HealthResponse(uptime) ==
    Response("healthy", "Service is running",
             [uptime |-> DurationString(uptime), timestamp |-> RFC3339])

\* a health check that restarts the uptime count
healthHandlerResets(r) ==
    /\ \E q \in Accept(r, "healthHandler") :
          Set(r, Return(Encode(WriteHeader(SetContentType(q, JSON), 200),
                               HealthResponse(now - startTime))))
    /\ startTime' = now
    /\ UNCHANGED << mainPc, now, lat >>

\* healthHandler: no wait; uptime is time.Since(startTime)
healthHandler(r) ==
    /\ \E q \in Accept(r, "healthHandler") :
          Set(r, Return(Encode(WriteHeader(SetContentType(q, JSON), 200),
                               HealthResponse(now - startTime))))
    /\ UNCHANGED << mainPc, startTime, now, lat >>

RootResponse ==
    Response("success", "OpenTelemetry Demo Server",
             [endpoints |-> <<"/good", "/bad", "/admin", "/health">>,
              version |-> "1.0.0"])

\* a root handler without the path test
rootHandlerAnyPath(r) ==
    /\ \E q \in Accept(r, "root") :
          Set(r, Return(Encode(SetContentType(q, JSON), RootResponse)))
    /\ UNCHANGED << mainPc, startTime, now, lat >>

\* a root handler that sets no Content-Type
rootHandlerNoHeader(r) ==
    /\ \E q \in Accept(r, "root") :
          IF q.path # <<"">>
          THEN Set(r, Return(NotFound(q)))
          ELSE Set(r, Return(Encode(q, RootResponse)))
    /\ UNCHANGED << mainPc, startTime, now, lat >>

\* the func literal registered on "/"
rootHandler(r) ==
    /\ \E q \in Accept(r, "root") :
          IF q.path # <<"">>
          THEN Set(r, Return(NotFound(q)))
          ELSE Set(r, Return(Encode(SetContentType(q, JSON), RootResponse)))
    /\ UNCHANGED << mainPc, startTime, now, lat >>

Next ==
    \/ Main
    \/ Tick
    \/ \E r \in Reqs :
          \/ Cancel(r)
          \/ Redirect(r)
          \/ goodHandler(r)
          \/ badHandler(r)
          \/ adminHandler(r)
          \/ healthHandler(r)
          \/ rootHandler(r)

Spec == Init /\ [][Next]_vars

\* ------------------------------------------------------------------ the draws
\* The four latency draws on their own, over everything rand.Intn can
\* return: each action is one evaluation of the draw's expression.
Draw(op, n, base) ==
    /\ \E k \in RandIntn(n) : lat' = [op |-> op, ms |-> LatencyMs(k, base)]
    /\ UNCHANGED << mainPc, startTime, now, req >>

\* simulateDatabase, line 29
DrawDatabase == Draw("db", DbLatencyN, DbLatencyBase)

\* simulateExternalAPI, line 45
DrawExternal == Draw("ext", ExtLatencyN, ExtLatencyBase)

\* badHandler, line 125
DrawBadDelay == Draw("bad_delay", BadDelayN, BadDelayBase)

\* adminHandler, line 176
DrawAdminDelay == Draw("admin_delay", AdminDelayN, AdminDelayBase)

NextDraw == DrawDatabase \/ DrawExternal \/ DrawBadDelay \/ DrawAdminDelay

SpecDraw == Init /\ [][NextDraw]_vars

\* ------------------------------------------------------------------ properties
Done(r) == req[r].pc = "done"
Handler(r) == IF req[r].pc = "idle" THEN "none" ELSE Mux(req[r].path)
Codes(r) == req[r].codes
IsJSON(r) == req[r].body # <<>> /\ req[r].body[1] = "json"
Envelope(r) == req[r].body[2]
\* the wait op of r has returned, ended by the event by
Ended(r, op, by) == \E i \in DOMAIN req[r].trace : req[r].trace[i] = [op |-> op, by |-> by]

ThreeUsers(users) ==
    users = << [id |-> 1, name |-> "Alice Johnson"],
               [id |-> 2, name |-> "Bob Smith"],
               [id |-> 3, name |-> "Charlie Brown"] >>

\* C1: a /good request whose context is never cancelled while the handler
\* runs ends with status 200 and data.users holding exactly the three
\* records 1 Alice Johnson, 2 Bob Smith, 3 Charlie Brown, whatever the
\* latencies drawn; no status is written before the handler's end.
C1_GoodUncancelled ==
    \A r \in Reqs :
        Handler(r) = "goodHandler" /\ ~CtxDone(req[r]) =>
            IF Done(r)
            THEN /\ Codes(r) = <<200>>
                 /\ IsJSON(r)
                 /\ ThreeUsers(Envelope(r).data.users)
            ELSE Codes(r) = <<>>

C1_Witness ==
    \E r \in Reqs :
        /\ Handler(r) = "goodHandler" /\ Done(r) /\ ~CtxDone(req[r])
        /\ Len(req[r].trace) = 2

\* C2: a /good request whose context is cancelled during the initial
\* database wait, before that wait's timer fires, never gets status 200:
\* the handler writes 503.
C2_GoodCancelledInDb ==
    \A r \in Reqs :
        Handler(r) = "goodHandler" /\ req[r].cancelAt = "db" =>
            /\ \A i \in DOMAIN Codes(r) : Codes(r)[i] # 200
            /\ Done(r) => Codes(r) = <<503>>

C2_Witness ==
    \E r \in Reqs :
        Handler(r) = "goodHandler" /\ req[r].cancelAt = "db" /\ Done(r)

\* C3: every /bad request ends with status 500 and data.error_code
\* "INTERNAL_ERROR", for every choice of latencies and whether the context
\* is cancelled during the database wait (or before it), during one of the
\* three delays, during the external-call wait, or never.
C3_BadAlways500 ==
    \A r \in Reqs :
        Handler(r) = "badHandler" =>
            IF Done(r)
            THEN /\ Codes(r) = <<500>>
                 /\ IsJSON(r)
                 /\ Envelope(r).data.error_code = "INTERNAL_ERROR"
            ELSE Codes(r) = <<>>

C3_Witness ==
    \E r1, r2 \in Reqs :
        /\ Handler(r1) = "badHandler" /\ Done(r1) /\ req[r1].cancelAt = "db"
        /\ Handler(r2) = "badHandler" /\ Done(r2) /\ req[r2].cancelAt = "sleep"

\* C4: every /admin request ends with status 401 and data.required_role
\* "admin", and two /admin requests that differ in the Authorization header
\* (absent or any value) get the same status, header and envelope.
C4_AdminAlways401 ==
    /\ \A r \in Reqs :
          Handler(r) = "adminHandler" =>
              IF Done(r)
              THEN /\ Codes(r) = <<401>>
                   /\ IsJSON(r)
                   /\ Envelope(r).data.required_role = "admin"
              ELSE Codes(r) = <<>>
    /\ \A r1, r2 \in Reqs :
          /\ Handler(r1) = "adminHandler" /\ Done(r1)
          /\ Handler(r2) = "adminHandler" /\ Done(r2)
          => /\ Codes(r1) = Codes(r2)
             /\ req[r1].ctype = req[r2].ctype
             /\ req[r1].body = req[r2].body

C4_Witness ==
    \E r1, r2 \in Reqs :
        /\ Handler(r1) = "adminHandler" /\ Done(r1) /\ req[r1].auth = <<>>
        /\ Handler(r2) = "adminHandler" /\ Done(r2)
        /\ req[r2].auth = <<"Bearer admin-token">>

\* the uptime a finished /health request reported
Uptime(q) == q.body[2].data.uptime[1]

\* C5: every /health request ends with status 200 without any simulated
\* wait; the uptime it reports is non-negative and is no smaller than the
\* uptime reported by any /health call that finished before it; and once
\* main has set startTime, no step writes it again.
C5_HealthUptime ==
    [][ /\ mainPc = "serving" => startTime' = startTime
        /\ \A r \in Reqs :
              req'[r].pc = "done" /\ Mux(req'[r].path) = "healthHandler" =>
                  /\ req'[r].codes = <<200>>
                  /\ req'[r].trace = <<>>
                  /\ Uptime(req'[r]) >= 0
                  /\ \A r2 \in Reqs :
                        /\ req[r].pc # "done"
                        /\ Done(r2) /\ Handler(r2) = "healthHandler"
                        => Uptime(req'[r]) >= Uptime(req[r2])
      ]_vars

C5_Witness ==
    \E r1, r2 \in Reqs :
        /\ Handler(r1) = "healthHandler" /\ Done(r1)
        /\ Handler(r2) = "healthHandler" /\ Done(r2)
        /\ Uptime(req[r1]) < Uptime(req[r2])

\* C6: a /good request whose database wait completed and whose context was
\* cancelled during the external-call wait still ends with status 200, the
\* three users and data.external_data null; when the external call
\* completed, external_data is the payload it produced.
C6_GoodExternalData ==
    \A r \in Reqs :
        Handler(r) = "goodHandler" /\ Done(r) /\ Ended(r, "db", "timer") =>
            /\ Codes(r) = <<200>>
            /\ IsJSON(r)
            /\ ThreeUsers(Envelope(r).data.users)
            /\ req[r].cancelAt = "ext" => Envelope(r).data.external_data = <<>>
            /\ req[r].cancelAt = "" =>
                  /\ Len(Envelope(r).data.external_data) = 1
                  /\ Envelope(r).data.external_data[1].external_data
                        = <<"Data from ", "https://api.example.com/status">>

C6_Witness ==
    \E r1, r2 \in Reqs :
        /\ Handler(r1) = "goodHandler" /\ Done(r1) /\ req[r1].cancelAt = "ext"
        /\ Handler(r2) = "goodHandler" /\ Done(r2) /\ req[r2].cancelAt = ""

\* C7 as stated: every response the server writes, whatever its status
\* (200, 401, 500, the 503 of a cancelled /good, the 404 of an unknown
\* path), carries Content-Type application/json.
C7_AllResponsesJSONType ==
    \A r \in Reqs :
        Done(r) /\ Codes(r)[1] \in {200, 401, 500, 503, 404} =>
            req[r].ctype = "application/json"

\* C7, amended: every response with status 200, 401 or 500 carries
\* Content-Type application/json; the 503 of a cancelled /good and the 404
\* of an unknown path are written by http.Error and carry text/plain, and
\* the mux's 301 for a path that is not clean carries text/html.
C7_JSONTypeOnHandlerReplies ==
    \A r \in Reqs :
        Done(r) =>
            /\ Len(Codes(r)) = 1
            /\ Codes(r)[1] \in {200, 401, 500, 503, 404, 301}
            /\ Codes(r)[1] \in {200, 401, 500} => req[r].ctype = "application/json"
            /\ Codes(r)[1] \in {503, 404} => req[r].ctype = "text/plain; charset=utf-8"
            /\ Codes(r)[1] = 301 => req[r].ctype = "text/html; charset=utf-8"

C7_Witness ==
    \E r1, r2 \in Reqs :
        /\ Done(r1) /\ Codes(r1) = <<503>>
        /\ Done(r2) /\ Codes(r2) = <<200>> /\ Handler(r2) = "root"

EnvelopeStatuses == {"success", "error", "healthy"}

\* the body of r is the envelope {status, message, data}
IsEnvelope(r) ==
    /\ IsJSON(r)
    /\ DOMAIN Envelope(r) = {"status", "message", "data"}
    /\ Envelope(r).status \in EnvelopeStatuses
    /\ Envelope(r).message \in STRING

\* C8 as stated: every response body, on every path and outcome including
\* the cancellation outcome of /good, is a JSON envelope {status, message,
\* data} with status one of "success", "error", "healthy" and a string
\* message.
C8_AllBodiesEnvelope ==
    \A r \in Reqs :
        Done(r) /\ Codes(r)[1] \in {200, 401, 500, 503, 404} => IsEnvelope(r)

\* C8, amended: every response body with status 200, 401 or 500 is such a
\* JSON envelope; the bodies of the 503 of a cancelled /good, of the 404 and
\* of the mux's 301 are plain text, not JSON.
C8_EnvelopeOnHandlerReplies ==
    \A r \in Reqs :
        Done(r) =>
            IF Codes(r)[1] \in {200, 401, 500}
            THEN IsEnvelope(r)
            ELSE req[r].body[1] = "text"

C8_Witness ==
    \E r1, r2 \in Reqs :
        /\ Done(r1) /\ Codes(r1) = <<503>>
        /\ Done(r2) /\ Handler(r2) = "healthHandler"

Delays ==
    { BadOperations[i] : i \in DOMAIN BadOperations }
        \cup { AdminOperations[i] : i \in DOMAIN AdminOperations }

\* the status each simulation handler is written to answer with
UsualStatus(h) ==
    IF h = "goodHandler" THEN 200 ELSE IF h = "badHandler" THEN 500 ELSE 401

\* C9 as stated: only the database wait of /good is ever ended by the
\* cancellation of the request context; every other wait (the external
\* call on /good and /bad, the database wait on /bad and /admin, the fixed
\* delays) runs until its timer fires, also when the context is cancelled.
C9_OnlyGoodDbHonorsCancel ==
    \A r \in Reqs :
        \A i \in DOMAIN req[r].trace :
            req[r].trace[i].by = "ctx" =>
                Handler(r) = "goodHandler" /\ req[r].trace[i].op = "db"

\* C9, amended: cancellation changes the response on exactly one wait, the
\* database wait of /good.  The fixed delays of /bad and /admin run until
\* their timer fires even when the context is already cancelled.  Every
\* select-based wait (the database wait and the external call, on every
\* path) returns early once the context is cancelled, and outside the
\* database wait of /good the handler then goes on to its usual status.
C9_CancelHonoredBySelects ==
    \A r \in Reqs :
        /\ \A i \in DOMAIN req[r].trace :
              LET w == req[r].trace[i]
              IN  /\ w.op \in Delays => w.by = "timer"
                  /\ w.op = "db" => (w.by = "ctx" <=> req[r].cancelAt = "db")
                  /\ w.op = "ext" =>
                        (w.by = "ctx" <=> req[r].cancelAt \in {"db", "sleep", "ext"})
        /\ Done(r) /\ Handler(r) \in {"goodHandler", "badHandler", "adminHandler"} =>
              (Codes(r) # << UsualStatus(Handler(r)) >>
                  <=> Handler(r) = "goodHandler" /\ req[r].cancelAt = "db")

C9_Witness ==
    \E r1, r2 \in Reqs :
        /\ Handler(r1) = "badHandler" /\ Done(r1) /\ req[r1].cancelAt = "db"
        /\ Ended(r1, "db", "ctx") /\ Ended(r1, "process_payment", "timer")
        /\ Ended(r1, "ext", "ctx")
        /\ Handler(r2) = "adminHandler" /\ Done(r2) /\ req[r2].cancelAt = "sleep"
        /\ Ended(r2, "verify_admin_permissions", "timer")

\* a path without empty, "." or ".." segments (a trailing slash apart)
IsClean(p) ==
    \A i \in DOMAIN p :
        /\ p[i] \notin {".", ".."}
        /\ p[i] = "" => i = Len(p)

Registered == { <<"">>, <<"good">>, <<"bad">>, <<"admin">>, <<"health">> }

ServiceInfo(r) ==
    /\ Codes(r) = <<200>>
    /\ IsJSON(r)
    /\ Envelope(r).data.endpoints = <<"/good", "/bad", "/admin", "/health">>
    /\ Envelope(r).data.version = "1.0.0"

\* C10 as stated: a request for exactly "/" gets 200 with the service-info
\* envelope; a request whose path is none of "/", "/good", "/bad", "/admin",
\* "/health" gets 404 and reaches none of the four simulation handlers.
C10_UnknownPath404 ==
    \A r \in Reqs :
        Done(r) =>
            /\ req[r].path = <<"">> => ServiceInfo(r)
            /\ req[r].path \notin Registered =>
                  Codes(r) = <<404>> /\ req[r].trace = <<>>

\* C10, amended: a request for exactly "/" gets 200 with the service-info
\* envelope; a request whose path is clean and none of the five gets 404; a
\* request whose path is not clean (an empty, "." or ".." segment) gets the
\* mux's 301 redirect; neither reaches a simulation handler.
C10_RootRouting ==
    \A r \in Reqs :
        req[r].pc # "idle" /\ req[r].path \notin Registered \ {<<"">>} =>
            /\ Done(r) /\ req[r].trace = <<>>
            /\ req[r].path = <<"">> => ServiceInfo(r)
            /\ req[r].path # <<"">> /\ IsClean(req[r].path) => Codes(r) = <<404>>
            /\ ~IsClean(req[r].path) => Codes(r) = <<301>>

C10_Witness ==
    \E r1, r2 \in Reqs :
        /\ Done(r1) /\ req[r1].path = <<"good", "">> /\ Codes(r1) = <<404>>
        /\ Done(r2) /\ req[r2].path = <<"">>

\* C11: every drawn latency lies in its documented range of whole
\* milliseconds: the database wait in 10..100, the external call in
\* 50..250, a /bad delay in 5..25, an /admin delay in 5..20.
C11_DrawRanges ==
    /\ lat.op = "db" => lat.ms \in 10..100
    /\ lat.op = "ext" => lat.ms \in 50..250
    /\ lat.op = "bad_delay" => lat.ms \in 5..25
    /\ lat.op = "admin_delay" => lat.ms \in 5..20

C11_Witness == lat = [op |-> "ext", ms |-> 249]

Waiting(r) == req[r].pc \in {"db", "op1", "op2", "op3", "ext"}

\* the next step of the goroutine that serves r
HandlerStep(r) == goodHandler(r) \/ badHandler(r) \/ adminHandler(r)

\* C12: with several requests in flight, every goroutine that is in a
\* wait can take its next step whatever the other requests are doing; a
\* step (a wait ending, a cancellation, an arrival) changes the request it
\* belongs to and no other; and the status a request ends with is decided
\* by its own path and its own cancellation alone.
C12_RequestsIndependent ==
    /\ [](\A r \in Reqs : Waiting(r) => ENABLED HandlerStep(r))
    /\ [][ \A r1, r2 \in Reqs :
              r1 # r2 /\ req'[r1] # req[r1] => req'[r2] = req[r2] ]_vars
    /\ [](\A r1, r2 \in Reqs :
              /\ Done(r1) /\ Done(r2)
              /\ req[r1].path = req[r2].path
              /\ req[r1].cancelAt = req[r2].cancelAt
              => Codes(r1) = Codes(r2))

\* r1 is still in its first wait, cancelled, while r2, accepted after it,
\* has run /bad to its end
C12_Witness ==
    \E r1, r2 \in Reqs :
        /\ r1 < r2
        /\ req[r1].pc = "db" /\ CtxDone(req[r1]) /\ Handler(r1) = "goodHandler"
        /\ Done(r2) /\ Handler(r2) = "badHandler" /\ ~CtxDone(req[r2])

\* the waits that have returned for r, in the order they returned
Ops(r) == [i \in DOMAIN req[r].trace |-> req[r].trace[i].op]

BadOrder ==
    << "db", "validate_user_permissions", "check_rate_limits",
       "process_payment", "ext" >>
AdminOrder ==
    << "db", "validate_token_format", "check_token_expiry",
       "verify_admin_permissions" >>

\* the waits of r so far are the first ones of order, and r has written a
\* status (the one status code) only after all of them
InOrder(r, order, code) ==
    /\ Len(req[r].trace) <= Len(order)
    /\ Ops(r) = SubSeq(order, 1, Len(req[r].trace))
    /\ Codes(r) # <<>> => Ops(r) = order /\ Codes(r) = <<code>>
    /\ \A i \in DOMAIN req[r].trace :
          i \in 2..4 => req[r].trace[i].by = "timer"

\* C13: on /bad the waits end in the order database wait,
\* validate_user_permissions, check_rate_limits, process_payment, external
\* call, and 500 is written only after all of them, the three delays
\* having run to their timer also when the context was cancelled earlier;
\* on /admin 401 is written only after the database wait and the delays
\* validate_token_format, check_token_expiry, verify_admin_permissions, in
\* that order.
C13_FixedOrder ==
    \A r \in Reqs :
        /\ Handler(r) = "badHandler" => InOrder(r, BadOrder, 500)
        /\ Handler(r) = "adminHandler" => InOrder(r, AdminOrder, 401)

C13_Witness ==
    \E r1, r2 \in Reqs :
        /\ Handler(r1) = "badHandler" /\ Done(r1) /\ req[r1].cancelAt = "db"
        /\ Handler(r2) = "adminHandler" /\ Done(r2) /\ req[r2].cancelAt = "db"

\* the server's steps when it receives the requests LiveReqs only
NextLive ==
    \/ Main
    \/ Tick
    \/ \E r \in LiveReqs :
          \/ Cancel(r)
          \/ Redirect(r)
          \/ goodHandler(r)
          \/ badHandler(r)
          \/ adminHandler(r)
          \/ healthHandler(r)
          \/ rootHandler(r)

\* The scheduler runs every goroutine that can run and every armed timer
\* fires: a goroutine in a wait eventually takes its next step.
FairSpec ==
    Init /\ [][NextLive]_vars /\ \A r \in LiveReqs : WF_vars(HandlerStep(r))

\* how far along its handler a goroutine is
Rank(pc) ==
    IF pc = "idle" THEN 0
    ELSE IF pc = "db" THEN 1
    ELSE IF pc = "op1" THEN 2
    ELSE IF pc = "op2" THEN 3
    ELSE IF pc = "op3" THEN 4
    ELSE IF pc = "ext" THEN 5
    ELSE 6

\* no wait has returned twice for q, and q holds one status code once its
\* handler has returned and none before
OneRun(q) ==
    /\ \A i, j \in DOMAIN q.trace : q.trace[i].op = q.trace[j].op => i = j
    /\ Len(q.codes) = IF q.pc = "done" THEN 1 ELSE 0

\* C14: a handler invocation is one linear run: its position only moves
\* forward, so that no wait is started twice; given that timers fire and
\* goroutines are scheduled, it returns, whether or not its context is ever
\* cancelled; and it writes exactly one status code.
C14_LinearRun ==
    /\ [][ \A r \in Reqs :
              /\ req'[r].pc # req[r].pc => Rank(req'[r].pc) > Rank(req[r].pc)
              /\ req'[r].pc = req[r].pc => req'[r].trace = req[r].trace
              /\ OneRun(req'[r]) ]_vars
    /\ \A r \in Reqs : Waiting(r) ~> Done(r)

\* a /bad request cancelled during one of its sleeps has run all five waits
\* and ended with its one status
C14_Witness ==
    \E r \in Reqs :
        /\ Handler(r) = "badHandler" /\ Done(r) /\ req[r].cancelAt = "sleep"
        /\ Len(req[r].trace) = 5 /\ Codes(r) = <<500>>

\* C15: once the database wait of a /good request has returned the
\* cancellation error, the handler has written 503 and returned: the
\* external call is never started, no user data is built or written, and
\* no 200 or second status follows the 503.
C15_GoodShortCircuit ==
    \A r \in Reqs :
        Handler(r) = "goodHandler" /\ Ended(r, "db", "ctx") =>
            /\ Done(r)
            /\ Ops(r) = <<"db">>
            /\ Codes(r) = <<503>>
            /\ req[r].body = <<"text", "Database unavailable">>

C15_Witness ==
    \E r \in Reqs :
        Handler(r) = "goodHandler" /\ Ended(r, "db", "ctx") /\ Codes(r) = <<503>>

====
